---- MODULE Spec2Model ----
(***************************************************************************)
(* Map generation of flax: the three-layer MapCanvas, the Fractor base     *)
(* class with its anchor and portal placement, the binary space partition  *)
(* of BinaryPartitionFractor and the noise bucketing of PerlinFractor.     *)
(*                                                                         *)
(* flax.geometry, flax.entity, flax.map and flax.noise are imported by the *)
(* sources but are not among them: Point, Size and Rectangle are modelled  *)
(* from the data model of the specification (integer points, positive      *)
(* sizes, rectangles with inclusive edges).                                *)
(***************************************************************************)
EXTENDS Integers, Sequences, FiniteSets, TLC

(***************************************************************************)
(* Bounds of the model.                                                    *)
(***************************************************************************)
\* Calls made on one fractor.  generate_map is called on a new fractor, as
\* FloorPlan does, and is the only call made on it.
MaxCalls == 3

\* Calls of generate() made on a fractor whose canvas holds whole rooms.
MaxGenerates == 1


\* Events constructed while the world runs, and calls of World.advance.
MaxEvents == 3

MaxAdvances == 1

\* Regions handed to the partition: minimum sizes in 1 .. MaxMinimum, the
\* origin in 0 .. MaxOrigin, a width too small to hold MaxLeaves + 1 leaves of
\* the minimum width side by side, and a height up to twice the minimum
\* height (the least height that splits).
MaxMinimum == 2

MaxOrigin == 1

MaxLeaves == 3

\* The largest interior of a room whose points are drawn one by one.
MaxFill == 2

\* The largest region whose noise samples are drawn point by point.
MaxNoisePoints == 4

(***************************************************************************)
(* Geometry (flax.geometry).                                               *)
(***************************************************************************)
Point(x, y) == <<x, y>>

Size(width, height) == [width |-> width, height |-> height]

\* Rectangle(Point(left, top), Size(width, height))
Rectangle(left, top, width, height) ==
    [left |-> left, top |-> top, width |-> width, height |-> height]

Right(r) == r.left + r.width - 1

Bottom(r) == r.top + r.height - 1

\* Rectangle.replace(top=..., bottom=..., left=..., right=...): the same
\* rectangle with the named edges moved, the others kept.
from_edges(top, bottom, left, right) ==
    Rectangle(left, top, right - left + 1, bottom - top + 1)

replace_bottom(r, bottom) == from_edges(r.top, bottom, r.left, Right(r))

replace_top(r, top) == from_edges(top, Bottom(r), r.left, Right(r))

replace_right(r, right) == from_edges(r.top, Bottom(r), r.left, right)

replace_left(r, left) == from_edges(r.top, Bottom(r), left, Right(r))

range_width(r) == r.left .. Right(r)

range_height(r) == r.top .. Bottom(r)

\* The set of points of a rectangle (Rectangle.iter_points, as a set).
Points(r) == {Point(x, y) : x \in range_width(r), y \in range_height(r)}

\* `point in r` for a point.
InRect(r, point) ==
    /\ r.left <= point[1] /\ point[1] <= Right(r)
    /\ r.top <= point[2] /\ point[2] <= Bottom(r)

\* `inner in outer` for two rectangles.
Contains(outer, inner) ==
    /\ outer.top <= inner.top
    /\ Bottom(outer) >= Bottom(inner)
    /\ outer.left <= inner.left
    /\ Right(outer) >= Right(inner)

\* Size.to_rect(Point.origin())
to_rect(size) == Rectangle(0, 0, size.width, size.height)

\* Rectangle.iter_points as a sequence: rows top to bottom, each row left
\* to right.
iter_points(r) ==
    [i \in 1 .. (r.width * r.height) |->
        Point(r.left + ((i - 1) % r.width), r.top + ((i - 1) \div r.width))]

(***************************************************************************)
(* Entities (flax.entity).  A cell of a canvas layer holds a descriptor:   *)
(* an entity type, instantiated when the map is built, or an entity that   *)
(* already exists.  An entity has an identity (id) and, for portals, the   *)
(* IPortal destination of its component_data.                              *)
(***************************************************************************)
None == "None"

Kind(type) == [inst |-> FALSE, type |-> type, destination |-> None, id |-> 0]

Entity(type, destination, id) ==
    [inst |-> TRUE, type |-> type, destination |-> destination, id |-> id]

CaveWall == Kind("CaveWall")
Wall == Kind("Wall")
Floor == Kind("Floor")
Tree == Kind("Tree")
Grass == Kind("Grass")
CutGrass == Kind("CutGrass")
Dirt == Kind("Dirt")
Player == Kind("Player")
Salamango == Kind("Salamango")
Armor == Kind("Armor")
StairsDown == Kind("StairsDown")
StairsUp == Kind("StairsUp")

\* The value of creature_grid[point] for a point without a creature.
NoCreature == Kind(None)

(***************************************************************************)
(* State.                                                                  *)
(***************************************************************************)
VARIABLES
    rect,               \* MapCanvas.rect
    arch_grid,          \* MapCanvas.arch_grid: point -> descriptor
    item_grid,          \* MapCanvas.item_grid: point -> list of descriptors
    creature_grid,      \* MapCanvas.creature_grid: point -> descriptor or None
    strategy,           \* the class of the fractor
    region,             \* Fractor.region
    minimum_size,       \* BinaryPartitionFractor.minimum_size
    regions,            \* maximally_partition: the list the for loop walks
    nonfinal_regions,   \* maximally_partition: regions split in this pass
    final_regions,      \* maximally_partition: the leaves found so far
    i,                  \* index of the region the running for loop is at
    pc,                 \* where the call in progress stands
    call,               \* the outermost method called last
    opts,               \* generate_map's arguments start, up, down
    outcome,            \* of `call`: "running", "returned" or "raised"
    last,               \* the step taken last: operation, argument, result
    calls,              \* number of calls made on the fractor so far
    budget,             \* number of calls that will be made on the fractor
    next_id,            \* identity of the next entity to be constructed
    map                 \* Map.place calls of the last to_map, in order

\* The state of a fractor and its canvas.
generator_vars ==
    <<rect, arch_grid, item_grid, creature_grid, strategy, region,
      minimum_size, regions, nonfinal_regions, final_regions, i, pc,
      call, opts, outcome, last, calls, budget, next_id, map>>

VARIABLES
    instance_dict,      \* __dict__ of an object with WeakProperty attributes
    alive,              \* the entities that have not been destroyed
    access              \* the access to an attribute made last

\* The state of an object with WeakProperty attributes and of the entities
\* it refers to.
relation_vars == <<instance_dict, alive, access>>

VARIABLES
    current_map,        \* World.current_map, by its name in floor_plan.maps
    tiles,              \* map name -> the creatures of its tiles, in order
    event_queue,        \* World.event_queue, front first
    actors,             \* advance: the list `actors`
    actor_index,        \* advance: index of the actor the for loop is at
    world_pc,           \* where the call in progress on the world stands
    world_call,         \* the method called on the world last
    fired,              \* the events fired so far, in order
    acted,              \* the actors that have acted in the advance call
    discarded,          \* the events change_map has cleared from the queue
    events,             \* number of events constructed so far
    advances            \* number of advance calls made so far

\* The state of the world.
world_vars ==
    <<current_map, tiles, event_queue, actors, actor_index, world_pc,
      world_call, fired, acted, discarded, events, advances>>

vars == <<generator_vars, relation_vars, world_vars>>

canvas == <<arch_grid, item_grid, creature_grid>>

fractor == <<rect, strategy, region, minimum_size, budget>>

partition_locals == <<regions, nonfinal_regions, final_regions, i>>

\* The attributes of Relation that are WeakProperty descriptors.
Names == {"from_entity", "to_entity"}

\* The entities a relation may refer to.
Referents == {"player", "armor"}

\* An object whose WeakProperty attributes have not been assigned yet, as
\* Relation.__init__ finds it: the instance's __dict__ holds neither name.
RelationInit ==
    /\ instance_dict = <<>>
    /\ alive = Referents
    /\ access = [op |-> "new", name |-> None, value |-> None, res |-> None,
                 exc |-> "none", purged |-> FALSE]

\* The maps of FloorPlan by name: map0 is generated with start=True and
\* holds the player and the companion, map1 holds no creature.
MapNames == {"map0", "map1"}

\* World.__init__, the creatures of map0 standing on its tiles in the
\* order `creatures`.
WorldNew(creatures) ==
    /\ current_map = "map0"
    /\ tiles = [name \in MapNames |->
                    IF name = "map0" THEN creatures ELSE <<>>]
    /\ event_queue = <<>>
    /\ actors = <<>>
    /\ actor_index = 1
    /\ world_pc = "idle"
    /\ world_call = "none"
    /\ fired = <<>>
    /\ acted = <<>>
    /\ discarded = {}
    /\ events = 0
    /\ advances = 0

WorldInit == WorldNew(<<"player", "salamango">>)

\* The record of a step: the operation, its argument, its result, the
\* exception it raised ("none" when it returned), and the step before it.
Step(op, arg, res, exc) ==
    [op |-> op, arg |-> arg, res |-> res, exc |-> exc, seq |-> last.seq + 1,
     prev |-> [op |-> last.op, arg |-> last.arg, exc |-> last.exc]]

NoOpts == [start |-> FALSE, up |-> None, down |-> None]

(***************************************************************************)
(* Construction: MapCanvas.__init__, Fractor.__init__ and                  *)
(* BinaryPartitionFractor.__init__.                                        *)
(***************************************************************************)
MapCanvasInit(size) ==
    /\ rect = to_rect(size)
    /\ arch_grid = [point \in Points(to_rect(size)) |-> CaveWall]
    /\ item_grid = [point \in Points(to_rect(size)) |-> <<>>]
    /\ creature_grid = [point \in Points(to_rect(size)) |-> NoCreature]

\* region_arg is <<>> for region=None and <<r>> for the region r.
FractorInit(class, map_size, region_arg, minimum) ==
    /\ MapCanvasInit(map_size)
    /\ strategy = class
    /\ region = IF region_arg = <<>> THEN to_rect(map_size) ELSE region_arg[1]
    /\ minimum_size = minimum
    /\ regions = <<>>
    /\ nonfinal_regions = <<>>
    /\ final_regions = <<>>
    /\ i = 1
    /\ pc = "idle"
    /\ call = "none"
    /\ opts = NoOpts
    /\ outcome = "returned"
    /\ last = [op |-> "__init__", arg |-> None, res |-> None, exc |-> "none",
               seq |-> 0,
               prev |-> [op |-> "none", arg |-> None, exc |-> "none"]]
    /\ calls = 0
    /\ next_id = 1
    /\ map = <<>>

(***************************************************************************)
(* BinaryPartitionFractor.partition and its two directions.  Each returns  *)
(* a list of regions; the random draws make it a set of possible lists.    *)
(***************************************************************************)
\* partition_horizontal without the "- 1" of the far edge of the top
\* partition.
partition_horizontal_no_border(r, minimum) ==
    LET top == r.top + minimum.height
        bottom == Bottom(r) - minimum.height
    IN  IF top > bottom
        THEN {<<r>>}
        ELSE {<<replace_bottom(r, midpoint), replace_top(r, midpoint + 1)>> :
                midpoint \in top .. bottom}

\* partition_horizontal with the second region starting on the midpoint row.
partition_horizontal_overlap(r, minimum) ==
    LET top == r.top + minimum.height - 1
        bottom == Bottom(r) - minimum.height
    IN  IF top > bottom
        THEN {<<r>>}
        ELSE {<<replace_bottom(r, midpoint), replace_top(r, midpoint)>> :
                midpoint \in top .. bottom}

partition_horizontal(r, minimum) ==
    LET top == r.top + minimum.height - 1
        bottom == Bottom(r) - minimum.height
    IN  IF top > bottom
        THEN {<<r>>}
        ELSE {<<replace_bottom(r, midpoint), replace_top(r, midpoint + 1)>> :
                midpoint \in top .. bottom}

\* partition_vertical whose second region is the whole region again.
partition_vertical_whole(r, minimum) ==
    LET left == r.left + minimum.width - 1
        right == Right(r) - minimum.width
    IN  IF left > right
        THEN {<<r>>}
        ELSE {<<replace_right(r, midpoint), r>> : midpoint \in left .. right}

\* partition_vertical with the far edge of the left partition one column short.
partition_vertical_short(r, minimum) ==
    LET left == r.left + minimum.width - 2
        right == Right(r) - minimum.width
    IN  IF left > right
        THEN {<<r>>}
        ELSE {<<replace_right(r, midpoint), replace_left(r, midpoint + 1)>> :
                midpoint \in left .. right}

partition_vertical(r, minimum) ==
    LET left == r.left + minimum.width - 1
        right == Right(r) - minimum.width
    IN  IF left > right
        THEN {<<r>>}
        ELSE {<<replace_right(r, midpoint), replace_left(r, midpoint + 1)>> :
                midpoint \in left .. right}

possible_directions(r, minimum) ==
    (IF r.height >= minimum.height * 2 THEN {"partition_horizontal"} ELSE {})
    \cup
    (IF r.width >= minimum.width * 2 THEN {"partition_vertical"} ELSE {})

partition(r, minimum) ==
    IF possible_directions(r, minimum) # {}
    THEN UNION {IF method = "partition_horizontal"
                THEN partition_horizontal(r, minimum)
                ELSE partition_vertical(r, minimum) :
                    method \in possible_directions(r, minimum)}
    ELSE {<<r>>}

(***************************************************************************)
(* Calls.  A method is called on an idle fractor; generate_map runs        *)
(* generate, place_player, place_portal (up), place_portal (down) and      *)
(* to_map, in this order, skipping the placements not asked for.           *)
(***************************************************************************)
Stages == <<"generate", "place_player", "place_portal_up",
            "place_portal_down", "to_map">>

Wanted(stage, o) ==
    CASE stage = "place_player" -> o.start
      [] stage = "place_portal_up" -> o.up # None
      [] stage = "place_portal_down" -> o.down # None
      [] OTHER -> TRUE

StageIndex(stage) == CHOOSE k \in 1 .. Len(Stages) : Stages[k] = stage

\* Where generate_map goes on after `stage` has returned.
After(stage, o) ==
    LET later == {k \in (StageIndex(stage) + 1) .. Len(Stages) :
                    Wanted(Stages[k], o)}
    IN  IF later = {} THEN "idle"
        ELSE Stages[CHOOSE k \in later : \A l \in later : k <= l]

\* A step of `stage` returns: a method called on its own (on the idle
\* fractor, or generate()) is over, generate_map goes on.
Return(stage) ==
    LET next == IF pc # "idle" /\ call = "generate_map"
                THEN After(stage, opts)
                ELSE "idle"
    IN  /\ pc' = next
        /\ outcome' = IF next = "idle" THEN "returned" ELSE "running"

\* A step raises: the exception leaves the call, generate_map included.
Raise ==
    /\ pc' = "idle"
    /\ outcome' = "raised"

\* generate(), called on its own.
CallGenerate ==
    /\ pc = "idle"
    /\ calls < budget
    /\ calls' = calls + 1
    /\ call' = "generate"
    /\ opts' = NoOpts
    /\ pc' = "generate"
    /\ outcome' = "running"
    /\ last' = Step("call_generate", None, None, "none")
    /\ UNCHANGED <<canvas, fractor, partition_locals, next_id, map>>
    /\ UNCHANGED <<relation_vars, world_vars>>

\* maximally_partition, up to the first pass of its while loop.
MaximallyPartitionBegin ==
    /\ pc = "generate"
    /\ strategy = "BinaryPartitionFractor"
    /\ regions' = <<region>>
    /\ final_regions' = <<>>
    /\ nonfinal_regions' = <<>>
    /\ i' = 1
    /\ pc' = "partition"
    /\ last' = Step("maximally_partition", region, None, "none")
    /\ UNCHANGED <<canvas, fractor, call, opts, outcome, calls, next_id, map>>
    /\ UNCHANGED <<relation_vars, world_vars>>

\* One turn of the for loop of maximally_partition: regions[i] is split or
\* becomes a leaf.  After the last region of the pass the while loop goes
\* on with the regions split in this pass, or ends.
PartitionStep ==
    /\ pc = "partition"
    /\ \E new_regions \in partition(regions[i], minimum_size) :
        LET nonfinal == IF Len(new_regions) > 1
                        THEN nonfinal_regions \o new_regions
                        ELSE nonfinal_regions
            final == IF Len(new_regions) > 1
                     THEN final_regions
                     ELSE final_regions \o new_regions
        IN  /\ final_regions' = final
            /\ IF i < Len(regions)
               THEN /\ i' = i + 1
                    /\ nonfinal_regions' = nonfinal
                    /\ UNCHANGED <<regions, pc>>
               ELSE /\ i' = 1
                    /\ regions' = nonfinal
                    /\ nonfinal_regions' = <<>>
                    /\ pc' = IF nonfinal = <<>> THEN "rooms" ELSE "partition"
            /\ last' = Step("partition", regions[i], new_regions, "none")
    /\ UNCHANGED <<canvas, fractor, call, opts, outcome, calls, next_id, map>>
    /\ UNCHANGED <<relation_vars, world_vars>>

(***************************************************************************)
(* MapCanvas.draw_room and the room of a leaf.                             *)
(***************************************************************************)
\* The list random.choice draws the terrain of a room from, as a set.
RoomKinds == {Floor, CutGrass, Grass}

OnBorder(r, point) ==
    \/ point[1] = r.left
    \/ point[1] = Right(r)
    \/ point[2] = r.top
    \/ point[2] = Bottom(r)

Interior(r) == {point \in Points(r) : ~OnBorder(r, point)}

\* The outcomes of the random.choice draws of one draw_room(r), one per
\* point of r.  The draws for the border are overwritten by the walls, so
\* one draw (Floor) stands for them; an interior of more than MaxFill
\* points is filled with one kind.
RoomFills(r) ==
    LET interior_draws ==
            IF Cardinality(Interior(r)) <= MaxFill
            THEN [Interior(r) -> RoomKinds]
            ELSE {[point \in Interior(r) |-> kind] : kind \in RoomKinds}
    IN  {[point \in Points(r) |->
            IF OnBorder(r, point) THEN Floor ELSE draws[point]] :
                draws \in interior_draws}

\* draw_room without its last loop: no walls on the left and the right.
draw_room_no_sides(grid, r, fill) ==
    [point \in (DOMAIN grid) \cup Points(r) |->
        IF InRect(r, point)
        THEN IF point[2] = r.top \/ point[2] = Bottom(r)
             THEN Wall
             ELSE fill[point]
        ELSE grid[point]]

\* draw_room with a wall on the column to the left of the room as well.
draw_room_wide(grid, r, fill) ==
    LET wide == Rectangle(r.left - 1, r.top, r.width + 1, r.height)
    IN  [point \in (DOMAIN grid) \cup Points(wide) |->
            IF InRect(wide, point)
            THEN IF OnBorder(wide, point) \/ point[1] = r.left
                 THEN Wall
                 ELSE fill[point]
            ELSE grid[point]]

\* arch_grid after the three loops of draw_room(r), fill being the draws of
\* the first: the points of the top and bottom rows and of the left and
\* right columns end as Wall, the others as drawn.
draw_room(grid, r, fill) ==
    [point \in (DOMAIN grid) \cup Points(r) |->
        IF InRect(r, point)
        THEN IF OnBorder(r, point) THEN Wall ELSE fill[point]
        ELSE grid[point]]

\* random_rect_in_rect without the "- size + 1" of the far ends.
random_rect_in_rect_anywhere(area, size) ==
    {Rectangle(left, top, size.width, size.height) :
        top \in area.top .. Bottom(area),
        left \in area.left .. Right(area)}

\* The rectangles random_rect_in_rect may return; none when random.randint
\* is given an empty range and raises ValueError.
random_rect_in_rect(area, size) ==
    {Rectangle(left, top, size.width, size.height) :
        top \in area.top .. (Bottom(area) - size.height + 1),
        left \in area.left .. (Right(area) - size.width + 1)}

\* The default room_size of generate_room.
room_size == Size(8, 8)

\* A method is called on the idle fractor.
Called(name) ==
    /\ pc = "idle"
    /\ calls < budget
    /\ calls' = calls + 1
    /\ call' = name
    /\ opts' = NoOpts

\* generate_map reaches one of its stages.
Reached(stage) ==
    /\ pc = stage
    /\ UNCHANGED <<calls, call, opts>>

\* A method that generate_map calls and that may be called on its own.
Entered(stage, name) == IF pc = "idle" THEN Called(name) ELSE Reached(stage)

\* draw_room(r), called on the canvas.
DrawRoom(r) ==
    /\ Called("draw_room")
    /\ pc' = "idle"
    /\ IF Contains(rect, r)
       THEN /\ \E fill \in RoomFills(r) :
                arch_grid' = draw_room(arch_grid, r, fill)
            /\ outcome' = "returned"
            /\ last' = Step("draw_room", r, None, "none")
       ELSE /\ outcome' = "raised"
            /\ last' = Step("draw_room", r, None, "AssertionError")
            /\ UNCHANGED arch_grid
    /\ UNCHANGED <<item_grid, creature_grid, fractor, partition_locals,
                   next_id, map>>
    /\ UNCHANGED <<relation_vars, world_vars>>

\* One turn of the for loop of BinaryPartitionFractor.generate:
\* generate_room(final_regions[i]).
GenerateRoom ==
    /\ pc = "rooms"
    /\ LET leaf == final_regions[i]
           room_rects == random_rect_in_rect(leaf, room_size)
       IN  IF room_rects = {}
           THEN /\ Raise
                /\ last' = Step("generate_room", leaf, None, "ValueError")
                /\ UNCHANGED <<arch_grid, i>>
           ELSE \E room_rect \in room_rects :
                    IF Contains(rect, room_rect)
                    THEN /\ \E fill \in RoomFills(room_rect) :
                            arch_grid' = draw_room(arch_grid, room_rect, fill)
                         /\ last' = Step("generate_room", leaf, room_rect, "none")
                         /\ IF i < Len(final_regions)
                            THEN /\ i' = i + 1
                                 /\ UNCHANGED <<pc, outcome>>
                            ELSE /\ i' = 1
                                 /\ Return("generate")
                    ELSE /\ Raise
                         /\ last' = Step("generate_room", leaf, room_rect,
                                         "AssertionError")
                         /\ UNCHANGED <<arch_grid, i>>
    /\ UNCHANGED <<item_grid, creature_grid, fractor, regions,
                   nonfinal_regions, final_regions, call, opts, calls,
                   next_id, map>>
    /\ UNCHANGED <<relation_vars, world_vars>>

(***************************************************************************)
(* PerlinFractor.generate.  The noise function is flax.noise's; a sample   *)
(* is in hundredths (20 is 0.2).                                           *)
(***************************************************************************)
\* The samples tried: the last of each bucket and the first of the next.
Samples == {19, 20, 39, 40, 59, 60, 79, 80}

\* The noise fields tried: every constant field, and over a region of at
\* most MaxNoisePoints points every mix of a floor and a dirt sample.
NoiseFields(r) ==
    {[point \in Points(r) |-> n] : n \in Samples}
    \cup
    (IF Cardinality(Points(r)) <= MaxNoisePoints
     THEN [Points(r) -> {19, 20}]
     ELSE {})

\* The if/elif chain with a sample on a threshold in the lower bucket.
arch_of_noise_closed(n) ==
    IF n <= 20 THEN Floor
    ELSE IF n <= 40 THEN Dirt
    ELSE IF n <= 60 THEN CutGrass
    ELSE IF n <= 80 THEN Grass
    ELSE Tree

\* The if/elif chain of PerlinFractor.generate.
arch_of_noise(n) ==
    IF n < 20 THEN Floor
    ELSE IF n < 40 THEN Dirt
    ELSE IF n < 60 THEN CutGrass
    ELSE IF n < 80 THEN Grass
    ELSE Tree

PerlinGenerate ==
    /\ pc = "generate"
    /\ strategy = "PerlinFractor"
    /\ \E noise \in NoiseFields(region) :
        /\ arch_grid' =
            [point \in (DOMAIN arch_grid) \cup Points(region) |->
                IF InRect(region, point)
                THEN arch_of_noise(noise[point])
                ELSE arch_grid[point]]
        /\ last' = Step("generate", region, noise, "none")
    /\ Return("generate")
    /\ UNCHANGED <<item_grid, creature_grid, fractor, partition_locals,
                   call, opts, calls, next_id, map>>
    /\ UNCHANGED <<relation_vars, world_vars>>

(***************************************************************************)
(* Fractor.place_player and Fractor.place_portal.                          *)
(***************************************************************************)
\* find_floor_points taking every kind a room is filled with for floor.
find_walkable_points(grid) == {point \in DOMAIN grid : grid[point] \in RoomKinds}

\* find_floor_points taking the points that hold an entity for floor too.
find_floor_or_entity_points(grid) ==
    {point \in DOMAIN grid : grid[point] = Floor \/ grid[point].inst}

\* find_floor_points leaving out the points that hold a creature or an item.
find_free_floor_points(grid) ==
    {point \in DOMAIN grid :
        /\ grid[point] = Floor
        /\ point \in DOMAIN creature_grid => creature_grid[point] = NoCreature
        /\ point \in DOMAIN item_grid => item_grid[point] = <<>>}

\* The points find_floor_points yields.  random.sample and random.choice
\* draw from them whatever their order, so they are kept as a set.
find_floor_points(grid) == {point \in DOMAIN grid : grid[point] = Floor}

\* random.choices in the place of random.sample: points may repeat.
sample3_with_repeats(floor_points) ==
    floor_points \X floor_points \X floor_points

\* The outcomes of random.sample(floor_points, 3): three different points;
\* none when there are fewer than three, and random.sample raises
\* ValueError.
sample3(floor_points) ==
    {points \in floor_points \X floor_points \X floor_points :
        /\ points[1] # points[2]
        /\ points[1] # points[3]
        /\ points[2] # points[3]}

\* dict[key] = value: the key is added when the dict does not hold it.
setitem(dict, key, value) ==
    [k \in (DOMAIN dict) \cup {key} |-> IF k = key THEN value ELSE dict[k]]

PlacePlayer ==
    /\ Entered("place_player", "place_player")
    /\ LET floor_points == find_floor_points(arch_grid)
       IN  IF floor_points = {}
           THEN /\ Raise
                /\ last' = Step("place_player", None, None, "AssertionError")
                /\ UNCHANGED <<creature_grid, item_grid>>
           ELSE IF sample3(floor_points) = {}
           THEN /\ Raise
                /\ last' = Step("place_player", None, None, "ValueError")
                /\ UNCHANGED <<creature_grid, item_grid>>
           ELSE \E points \in sample3(floor_points) :
                /\ creature_grid' =
                    setitem(setitem(creature_grid, points[1], Player),
                            points[2], Salamango)
                /\ IF points[3] \in DOMAIN item_grid
                   THEN /\ item_grid' =
                            [item_grid EXCEPT
                                ![points[3]] = Append(@, Armor)]
                        /\ Return("place_player")
                        /\ last' = Step("place_player", None, points, "none")
                   ELSE /\ Raise
                        /\ last' = Step("place_player", None, points, "KeyError")
                        /\ UNCHANGED item_grid
    /\ UNCHANGED <<arch_grid, fractor, partition_locals, next_id, map>>
    /\ UNCHANGED <<relation_vars, world_vars>>

\* place_portal without its assertion: random.choice raises IndexError on
\* an empty list.
place_portal_no_assert(stage, portal_type, destination) ==
    LET portal == Entity(portal_type.type, destination, next_id)
        floor_points == find_floor_points(arch_grid)
        args == [portal_type |-> portal_type, destination |-> destination]
    IN  /\ next_id' = next_id + 1
        /\ IF floor_points = {}
           THEN /\ Raise
                /\ last' = Step("place_portal", args, None, "IndexError")
                /\ UNCHANGED arch_grid
           ELSE \E point \in floor_points :
                /\ arch_grid' = setitem(arch_grid, point, portal)
                /\ Return(stage)
                /\ last' = Step("place_portal", args, point, "none")

\* The body of place_portal(portal_type, destination): the portal is
\* constructed first, then a floor point is drawn for it.
place_portal(stage, portal_type, destination) ==
    LET portal == Entity(portal_type.type, destination, next_id)
        floor_points == find_floor_points(arch_grid)
        args == [portal_type |-> portal_type, destination |-> destination]
    IN  /\ next_id' = next_id + 1
        /\ IF floor_points = {}
           THEN /\ Raise
                /\ last' = Step("place_portal", args, None, "AssertionError")
                /\ UNCHANGED arch_grid
           ELSE \E point \in floor_points :
                /\ arch_grid' = setitem(arch_grid, point, portal)
                /\ Return(stage)
                /\ last' = Step("place_portal", args, point, "none")

Destinations == {"map0", "map1"}

\* place_portal called on the idle fractor.
PlacePortal ==
    /\ Called("place_portal")
    /\ \E portal_type \in {StairsUp, StairsDown}, destination \in Destinations :
        place_portal("place_portal", portal_type, destination)
    /\ UNCHANGED <<item_grid, creature_grid, fractor, partition_locals, map>>
    /\ UNCHANGED <<relation_vars, world_vars>>

\* generate_map: self.place_portal(StairsUp, up)
PlacePortalUp ==
    /\ Reached("place_portal_up")
    /\ place_portal("place_portal_up", StairsUp, opts.up)
    /\ UNCHANGED <<item_grid, creature_grid, fractor, partition_locals, map>>
    /\ UNCHANGED <<relation_vars, world_vars>>

\* generate_map: self.place_portal(StairsDown, down)
PlacePortalDown ==
    /\ Reached("place_portal_down")
    /\ place_portal("place_portal_down", StairsDown, opts.down)
    /\ UNCHANGED <<item_grid, creature_grid, fractor, partition_locals, map>>
    /\ UNCHANGED <<relation_vars, world_vars>>

(***************************************************************************)
(* MapCanvas.to_map.                                                       *)
(***************************************************************************)
\* maybe_create calling type_or_thing() whatever it is given.
maybe_create_always(type_or_thing, id) == Entity(type_or_thing.type, None, id)

\* maybe_create(type_or_thing); id is the identity a new entity gets.
maybe_create(type_or_thing, id) ==
    IF type_or_thing.inst
    THEN type_or_thing
    ELSE Entity(type_or_thing.type, None, id)

\* descriptors_at without the creature.
descriptors_at_no_creature(point) == <<arch_grid[point]>> \o item_grid[point]

\* What the body of to_map's for loop hands to maybe_create at one point:
\* the terrain, the items in list order, the creature if there is one.
descriptors_at(point) ==
    <<arch_grid[point]>>
    \o item_grid[point]
    \o (IF creature_grid[point] # NoCreature
        THEN <<creature_grid[point]>>
        ELSE <<>>)

\* The Map.place calls of to_map over the points `points`, in order; id is
\* the identity of the next entity maybe_create constructs.
RECURSIVE place_calls(_, _)
place_calls(points, id) ==
    IF points = <<>>
    THEN <<>>
    ELSE LET point == Head(points)
             descriptors == descriptors_at(point)
             created(k) ==
                Cardinality({j \in 1 .. (k - 1) : ~descriptors[j].inst})
             new == Cardinality({j \in DOMAIN descriptors :
                                    ~descriptors[j].inst})
         IN  [k \in DOMAIN descriptors |->
                [entity |-> maybe_create(descriptors[k], id + created(k)),
                 point |-> point]]
             \o place_calls(Tail(points), id + new)

ToMap ==
    /\ Entered("to_map", "to_map")
    /\ map' = place_calls(iter_points(rect), next_id)
    /\ next_id' = next_id +
            Cardinality({k \in DOMAIN map' : map'[k].entity.id >= next_id})
    /\ Return("to_map")
    /\ last' = Step("to_map", None, None, "none")
    /\ UNCHANGED <<canvas, fractor, partition_locals>>
    /\ UNCHANGED <<relation_vars, world_vars>>

\* generate_map(start, up, down), up to its call of self.generate().  It
\* uses up the calls of the fractor.
GenerateMap ==
    /\ pc = "idle"
    /\ calls = 0
    /\ calls' = budget
    /\ call' = "generate_map"
    /\ \E start \in BOOLEAN, up \in {None, "map0"}, down \in {None, "map1"} :
        /\ opts' = [start |-> start, up |-> up, down |-> down]
        /\ last' = Step("generate_map", opts', None, "none")
    /\ pc' = "generate"
    /\ outcome' = "running"
    /\ UNCHANGED <<canvas, fractor, partition_locals, next_id, map>>
    /\ UNCHANGED <<relation_vars, world_vars>>

(***************************************************************************)
(* The partition alone: a BinaryPartitionFractor over every small region   *)
(* and minimum size, on which generate() runs maximally_partition.         *)
(***************************************************************************)
PartitionMinimums ==
    {Size(width, height) : width \in 1 .. MaxMinimum, height \in 1 .. MaxMinimum}

PartitionRegions(minimum) ==
    {Rectangle(left, top, width, height) :
        left \in {0, MaxOrigin}, top \in {0, MaxOrigin},
        width \in 1 .. ((MaxLeaves + 1) * minimum.width - 1),
        height \in 1 .. (2 * minimum.height)}

InitPartition ==
    \E minimum \in PartitionMinimums :
        \E region_arg \in PartitionRegions(minimum) :
            /\ FractorInit("BinaryPartitionFractor", Size(1, 1),
                           <<region_arg>>, minimum)
            /\ budget = 1
            /\ RelationInit
            /\ WorldInit

NextPartition ==
    \/ CallGenerate
    \/ MaximallyPartitionBegin
    \/ PartitionStep

SpecPartition == InitPartition /\ [][NextPartition]_vars

(***************************************************************************)
(* Properties of the partition.                                            *)
(***************************************************************************)
\* maximally_partition has returned final_regions to generate.
Partitioned == pc = "rooms"

Leaves == {final_regions[k] : k \in 1 .. Len(final_regions)}

\* The two regions of a split of r lie on both sides of one midpoint.
SharesMidpoint(r, first, second) ==
    \/ /\ first.left = r.left /\ second.left = r.left
       /\ first.width = r.width /\ second.width = r.width
       /\ first.top = r.top /\ Bottom(second) = Bottom(r)
       /\ second.top = Bottom(first) + 1
    \/ /\ first.top = r.top /\ second.top = r.top
       /\ first.height = r.height /\ second.height = r.height
       /\ first.left = r.left /\ Right(second) = Right(r)
       /\ second.left = Right(first) + 1

\* C1: the leaves maximally_partition returns tile self.region: every point
\* of the region lies in exactly one leaf and no leaf has a point outside
\* the region; and the two regions of every split made on the way end on
\* the midpoint and start right after it.
C1_LeavesTileRegion ==
    /\ Partitioned =>
        /\ \A point \in Points(region) :
            Cardinality({k \in 1 .. Len(final_regions) :
                            InRect(final_regions[k], point)}) = 1
        /\ \A leaf \in Leaves :
            \A point \in Points(leaf) : InRect(region, point)
    /\ (last.op = "partition" /\ Len(last.res) > 1) =>
        /\ Len(last.res) = 2
        /\ SharesMidpoint(last.arg, last.res[1], last.res[2])

\* A partition that has split in both directions.
C1_Witness ==
    /\ Partitioned
    /\ \E a, b \in Leaves : a.top # b.top
    /\ \E a, b \in Leaves : a.left # b.left

Fractor(class, map_size, region_arg, minimum) ==
    [class |-> class, map_size |-> map_size, region_arg |-> region_arg,
     minimum |-> minimum]

\* PerlinFractor has no minimum_size.
NoMinimum == Size(0, 0)

Fractors ==
    {Fractor("PerlinFractor", Size(2, 2), region_arg, NoMinimum) :
        region_arg \in {<<>>, <<Rectangle(1, 1, 2, 1)>>}}
    \cup
    {Fractor("PerlinFractor", Size(4, 3), region_arg, NoMinimum) :
        region_arg \in {<<Rectangle(1, 0, 2, 2)>>, <<Rectangle(3, 1, 2, 2)>>}}
    \cup
    {Fractor("BinaryPartitionFractor", Size(4, 3), <<>>, minimum) :
        minimum \in {Size(2, 2)}}
    \cup
    {Fractor("BinaryPartitionFractor", Size(2, 2), <<Rectangle(0, 0, 8, 8)>>,
             Size(8, 8))}

\* The rectangles draw_room is called with: rooms with sides of 1 and 3 at
\* the origin and to the right of it, inside the canvas and reaching out of
\* it.
DrawRects ==
    {Rectangle(left, 0, width, height) :
        left \in {0, 1}, width \in {1, 3}, height \in {1, 3}}

Init ==
    \E f \in Fractors :
        /\ FractorInit(f.class, f.map_size, f.region_arg, f.minimum)
        /\ budget = MaxCalls
        /\ RelationInit
        /\ WorldInit

Next ==
    \/ \E r \in DrawRects : DrawRoom(r)
    \/ CallGenerate
    \/ GenerateMap
    \/ MaximallyPartitionBegin
    \/ PartitionStep
    \/ GenerateRoom
    \/ PerlinGenerate
    \/ PlacePlayer
    \/ PlacePortal
    \/ PlacePortalUp
    \/ PlacePortalDown
    \/ ToMap

Spec == Init /\ [][Next]_vars

(***************************************************************************)
(* The rooms of BinaryPartitionFractor.generate: canvases that hold rooms  *)
(* of room_size, with leaves larger than a room, and a region reaching     *)
(* out of its canvas.                                                      *)
(***************************************************************************)
RoomFractors ==
    {Fractor("BinaryPartitionFractor", Size(17, 9), <<>>, Size(8, 8)),
     Fractor("BinaryPartitionFractor", Size(9, 17), <<>>, Size(8, 8)),
     Fractor("BinaryPartitionFractor", Size(10, 9), <<Rectangle(1, 0, 9, 9)>>,
             Size(8, 8)),
     Fractor("BinaryPartitionFractor", Size(9, 9), <<Rectangle(1, 1, 9, 9)>>,
             Size(8, 8))}

InitRooms ==
    \E f \in RoomFractors :
        /\ FractorInit(f.class, f.map_size, f.region_arg, f.minimum)
        /\ budget = MaxGenerates
        /\ RelationInit
        /\ WorldInit

NextRooms ==
    \/ CallGenerate
    \/ MaximallyPartitionBegin
    \/ PartitionStep
    \/ GenerateRoom

SpecRooms == InitRooms /\ [][NextRooms]_vars

(***************************************************************************)
(* Properties of the rooms.                                                *)
(***************************************************************************)
\* C3: a room rectangle that generate_room makes for a leaf lies inside the
\* leaf: its top and left are at least the leaf's, its bottom and right at
\* most the leaf's, wherever random_rect_in_rect puts it.
C3_RoomInsideLeaf ==
    (last.op = "generate_room" /\ last.exc # "ValueError") =>
        /\ last.res.top >= last.arg.top
        /\ last.res.left >= last.arg.left
        /\ Bottom(last.res) <= Bottom(last.arg)
        /\ Right(last.res) <= Right(last.arg)

\* A room is drawn away from the left edge of a leaf larger than the room.
C3_Witness ==
    /\ last.op = "generate_room"
    /\ last.exc = "none"
    /\ last.res.left > last.arg.left
    /\ Bottom(last.res) < Bottom(last.arg)
    /\ arch_grid[Point(last.res.left, last.res.top)] = Wall

(***************************************************************************)
(* Properties of the canvas.                                               *)
(***************************************************************************)
\* The step taken is a step of `op`.
Did(op) == last'.seq # last.seq /\ last'.op = op

\* The points whose terrain is exactly Floor.
FloorCells == {point \in DOMAIN arch_grid : arch_grid[point] = Floor}

\* C4: the keys of arch_grid are exactly the points of the canvas bounds,
\* whatever was called on the fractor.
C4_TerrainKeysAreCanvasPoints == DOMAIN arch_grid = Points(rect)

\* draw_room(r) has returned and is called again with the same r, and
\* returns.
SameRoomDrawnAgain ==
    /\ last.op = "draw_room"
    /\ last.exc = "none"
    /\ Did("draw_room")
    /\ last'.exc = "none"
    /\ last'.arg = last.arg

\* C5 as stated: drawing the same room a second time leaves arch_grid as
\* the first draw made it.
C5_DrawRoomTwiceSameTerrain ==
    [][SameRoomDrawnAgain => arch_grid' = arch_grid]_vars

\* C5, amended: drawing the same room a second time leaves arch_grid as the
\* first draw made it at every point that is not an interior point of the
\* room (Wall on the border of the room); an interior point holds one of
\* Floor, CutGrass, Grass after the first draw and after the second.
C5_DrawRoomTwiceSameFrame ==
    [][SameRoomDrawnAgain =>
        /\ DOMAIN arch_grid' = DOMAIN arch_grid
        /\ \A point \in DOMAIN arch_grid :
            IF point \in Interior(last.arg)
            THEN /\ arch_grid[point] \in RoomKinds
                 /\ arch_grid'[point] \in RoomKinds
            ELSE /\ arch_grid'[point] = arch_grid[point]
                 /\ InRect(last.arg, point) => arch_grid'[point] = Wall]_vars

\* A room with an interior has been drawn twice in a row.
C5_Witness ==
    /\ last.op = "draw_room"
    /\ last.exc = "none"
    /\ last.prev.op = "draw_room"
    /\ last.prev.exc = "none"
    /\ last.prev.arg = last.arg
    /\ Interior(last.arg) # {}

Occupied(point) == creature_grid[point] # NoCreature

\* The number of Map.place calls the claim gives a point.
PlacedAt(point) ==
    1 + Len(item_grid[point]) + (IF Occupied(point) THEN 1 ELSE 0)

\* The number of Map.place calls before those of the k-th point in scan
\* order.
RECURSIVE PlacedBefore(_)
PlacedBefore(k) ==
    IF k = 1 THEN 0
    ELSE PlacedBefore(k - 1) + PlacedAt(iter_points(rect)[k - 1])

\* The entity placed is the descriptor's: the descriptor itself when it is
\* an entity, an entity of its type otherwise.
Materializes(entity, descriptor) ==
    /\ entity.inst
    /\ entity.type = descriptor.type
    /\ descriptor.inst => entity = descriptor

\* C6: the Map.place calls of to_map are, for each point of the canvas
\* bounds in scan order, the terrain, then the items in list order, then the
\* creature if one is set; so there are w * h terrain placements, one
\* placement per item, one per occupant and at most one occupant placement
\* per point.
C6_ToMapPlacesInOrder ==
    last.op = "to_map" =>
        LET points == iter_points(rect)
            items == UNION {{<<point, j>> : j \in 1 .. Len(item_grid[point])} :
                            point \in Points(rect)}
            occupants == {point \in Points(rect) : Occupied(point)}
            occupant_calls(point) ==
                {k \in DOMAIN map :
                    /\ map[k].point = point
                    /\ map[k].entity.type \in {"Player", "Salamango"}}
        IN  /\ \A k \in 1 .. Len(points) :
                LET point == points[k]
                    base == PlacedBefore(k)
                IN  /\ base + PlacedAt(point) <= Len(map)
                    /\ map[base + 1].point = point
                    /\ Materializes(map[base + 1].entity, arch_grid[point])
                    /\ \A j \in 1 .. Len(item_grid[point]) :
                        /\ map[base + 1 + j].point = point
                        /\ Materializes(map[base + 1 + j].entity,
                                        item_grid[point][j])
                    /\ Occupied(point) =>
                        /\ map[base + PlacedAt(point)].point = point
                        /\ Materializes(map[base + PlacedAt(point)].entity,
                                        creature_grid[point])
            /\ Len(map) = rect.width * rect.height
                            + Cardinality(items) + Cardinality(occupants)
            /\ \A point \in Points(rect) :
                Cardinality(occupant_calls(point)) <= 1

\* to_map has placed a player, a companion, an armor and a portal.
C6_Witness ==
    /\ last.op = "to_map"
    /\ \A type \in {"Player", "Salamango", "Armor", "StairsDown"} :
        \E k \in DOMAIN map : map[k].entity.type = type

\* C7: a place_player that returns has put Player on one point, Salamango on
\* a second and appended Armor to the items of a third, three different
\* points whose terrain was Floor, and has changed nothing else in the
\* three layers.
C7_PlacePlayerOnThreeFloorPoints ==
    [][(Did("place_player") /\ last'.exc = "none") =>
        LET points == last'.res
        IN  /\ points[1] # points[2]
            /\ points[1] # points[3]
            /\ points[2] # points[3]
            /\ \A k \in 1 .. 3 :
                /\ points[k] \in DOMAIN arch_grid
                /\ arch_grid[points[k]] = Floor
            /\ arch_grid' = arch_grid
            /\ DOMAIN creature_grid' =
                    (DOMAIN creature_grid) \cup {points[1], points[2]}
            /\ creature_grid'[points[1]] = Player
            /\ creature_grid'[points[2]] = Salamango
            /\ \A point \in (DOMAIN creature_grid) \ {points[1], points[2]} :
                creature_grid'[point] = creature_grid[point]
            /\ DOMAIN item_grid' = DOMAIN item_grid
            /\ points[3] \in DOMAIN item_grid
            /\ item_grid'[points[3]] = Append(item_grid[points[3]], Armor)
            /\ \A point \in (DOMAIN item_grid) \ {points[3]} :
                item_grid'[point] = item_grid[point]]_vars

\* generate_map has placed the player, the companion and the armor.
C7_Witness ==
    /\ call = "generate_map"
    /\ last.op = "place_player"
    /\ last.exc = "none"
    /\ creature_grid[last.res[1]] = Player
    /\ creature_grid[last.res[2]] = Salamango
    /\ item_grid[last.res[3]] = <<Armor>>

C9_NoFloorPointAborts ==
    [][((Did("place_player") \/ Did("place_portal")) /\ FloorCells = {}) =>
        /\ last'.exc = "AssertionError"
        /\ outcome' = "raised"
        /\ pc' = "idle"
        /\ map' = map
        /\ canvas' = canvas]_vars

\* generate_map has failed in place_player on a canvas with walkable
\* terrain that is not Floor.
C9_Witness ==
    /\ call = "generate_map"
    /\ last.op = "place_player"
    /\ last.exc = "AssertionError"
    /\ outcome = "raised"
    /\ map = <<>>
    /\ \E point \in DOMAIN arch_grid : arch_grid[point] \in {Dirt, CutGrass, Grass}

\* C10: with one or two Floor points place_player raises, and no layer has
\* changed.
C10_TooFewFloorPointsAborts ==
    [][(Did("place_player") /\ Cardinality(FloorCells) \in {1, 2}) =>
        /\ last'.exc # "none"
        /\ outcome' = "raised"
        /\ pc' = "idle"
        /\ canvas' = canvas]_vars

\* place_player has failed on a canvas with two Floor points.
C10_Witness ==
    /\ last.op = "place_player"
    /\ last.exc = "ValueError"
    /\ outcome = "raised"
    /\ Cardinality(FloorCells) = 2

(***************************************************************************)
(* Properties of a generate_map run.                                       *)
(***************************************************************************)
\* C11: a generate_map run that aborts has failed the assertion of
\* draw_room (a room out of the canvas bounds) or the assertion of
\* place_player or place_portal (no Floor point); no other step raises,
\* and no random draw does.
C11_OnlyPreconditionsAbort ==
    (call = "generate_map" /\ outcome = "raised") =>
        /\ last.exc = "AssertionError"
        /\ last.op \in {"generate_room", "place_player", "place_portal"}

(***************************************************************************)
(* Termination of the partition: the while loop of maximally_partition is  *)
(* left to run, each turn of its for loop being taken in the end.          *)
(***************************************************************************)
\* The regions of the partition whose origin lies on the diagonal.
InitPartitionLive ==
    /\ InitPartition
    /\ region.left = region.top

SpecPartitionLive ==
    InitPartitionLive /\ [][NextPartition]_vars /\ WF_vars(NextPartition)

Area(r) == r.width * r.height

\* C12: maximally_partition, once begun, returns with the worklist
\* `regions` empty; and each of the regions a split puts back on the
\* worklist is strictly smaller than the region that was split.
C12_MaximallyPartitionTerminates ==
    /\ (pc = "partition") ~> (pc = "rooms" /\ regions = <<>>)
    /\ [][(Did("partition") /\ Len(last'.res) > 1) =>
            \A k \in 1 .. Len(last'.res) :
                /\ Area(last'.res[k]) < Area(last'.arg)
                /\ Area(last'.res[k]) > 0]_vars

\* The while loop has ended after three passes at the least: a region was
\* split, and one of its halves again.
C12_Witness ==
    /\ pc = "rooms"
    /\ regions = <<>>
    /\ Len(final_regions) >= 3

(***************************************************************************)
(* Properties of the populate step.                                        *)
(***************************************************************************)
\* The bucket of a sample, in hundredths: [0, 0.2), [0.2, 0.4), [0.4, 0.6),
\* [0.6, 0.8) and [0.8, ...).
Bucket(n) ==
    CASE n < 20 -> Floor
      [] 20 <= n /\ n < 40 -> Dirt
      [] 40 <= n /\ n < 60 -> CutGrass
      [] 60 <= n /\ n < 80 -> Grass
      [] 80 <= n -> Tree

\* C13: after PerlinFractor.generate the terrain of every point of the
\* region is the kind of the bucket of the point's noise sample, a sample
\* on a threshold counting for the upper bucket; so a constant noise gives
\* every point of the region the kind of the constant.
C13_NoiseBuckets ==
    last.op = "generate" =>
        /\ \A point \in Points(last.arg) :
            /\ point \in DOMAIN arch_grid
            /\ arch_grid[point] = Bucket(last.res[point])
        /\ \A n \in Samples :
            (\A point \in Points(last.arg) : last.res[point] = n) =>
                \A point \in Points(last.arg) : arch_grid[point] = Bucket(n)

\* A region sampled on the threshold 0.2 at one point and just under it at
\* another holds Dirt and Floor.
C13_Witness ==
    /\ last.op = "generate"
    /\ \E point \in Points(last.arg) :
        last.res[point] = 20 /\ arch_grid[point] = Dirt
    /\ \E point \in Points(last.arg) :
        last.res[point] = 19 /\ arch_grid[point] = Floor

(***************************************************************************)
(* The populate step alone: generate() called on new fractors of both      *)
(* classes, the partition fractors drawing whole rooms.                    *)
(***************************************************************************)
PopulateFractors ==
    RoomFractors \cup {f \in Fractors : f.class = "PerlinFractor"}

InitPopulate ==
    \E f \in PopulateFractors :
        /\ FractorInit(f.class, f.map_size, f.region_arg, f.minimum)
        /\ budget = MaxGenerates
        /\ RelationInit
        /\ WorldInit

NextPopulate ==
    \/ CallGenerate
    \/ MaximallyPartitionBegin
    \/ PartitionStep
    \/ GenerateRoom
    \/ PerlinGenerate

SpecPopulate == InitPopulate /\ [][NextPopulate]_vars

\* The step taken is a step of generate().
InGenerate == pc \in {"generate", "partition", "rooms"}

\* The points whose terrain the step has written anew or changed.
TerrainChanged ==
    {point \in DOMAIN arch_grid' :
        \/ point \notin DOMAIN arch_grid
        \/ arch_grid'[point] # arch_grid[point]}

\* C14: a step of generate(), of BinaryPartitionFractor and of
\* PerlinFractor, leaves item_grid and creature_grid as they were, so on a
\* new canvas every list of items is empty and every creature None after
\* it; and the points whose terrain it changes are points of self.region.
C14_PopulateWritesTerrainOfRegion ==
    [][InGenerate =>
        /\ item_grid' = item_grid
        /\ creature_grid' = creature_grid
        /\ \A point \in DOMAIN item_grid' : item_grid'[point] = <<>>
        /\ \A point \in DOMAIN creature_grid' :
            creature_grid'[point] = NoCreature
        /\ \A point \in TerrainChanged : InRect(region, point)]_vars

\* generate() of a BinaryPartitionFractor has returned, a room drawn in a
\* region smaller than the canvas, the terrain out of the region as the
\* canvas was made.
C14_Witness ==
    /\ strategy = "BinaryPartitionFractor"
    /\ call = "generate"
    /\ outcome = "returned"
    /\ \E point \in DOMAIN arch_grid : arch_grid[point] = Wall
    /\ \E point \in DOMAIN arch_grid :
        ~InRect(region, point) /\ arch_grid[point] = CaveWall
    /\ \A point \in DOMAIN item_grid : item_grid[point] = <<>>

(***************************************************************************)
(* WeakProperty (flax.relation): the attribute `name` of an object is kept *)
(* as a weak reference in the object's __dict__ under `name`.  A weak      *)
(* reference is the entity it refers to; calling it gives the entity while *)
(* the entity is alive and None once it has been destroyed.                *)
(***************************************************************************)
\* A fractor that is never called: the state of the generator while the
\* relation or the world runs.
GeneratorIdle ==
    /\ FractorInit("PerlinFractor", Size(1, 1), <<>>, NoMinimum)
    /\ budget = 0

\* del dict[name]
delitem(dict, name) == [n \in (DOMAIN dict) \ {name} |-> dict[n]]

\* __get__ without its try: a missing entry raises KeyError.
WeakProperty_get_no_try(dict, name, live) ==
    IF name \notin DOMAIN dict
    THEN [res |-> None, exc |-> "KeyError", dict |-> dict]
    ELSE IF dict[name] \in live
    THEN [res |-> dict[name], exc |-> "none", dict |-> dict]
    ELSE [res |-> None, exc |-> "none", dict |-> delitem(dict, name)]

\* WeakProperty.__get__ on an instance whose __dict__ is dict, the
\* entities of `live` being alive: the value returned, the exception
\* raised and the __dict__ it leaves.
WeakProperty_get(dict, name, live) ==
    IF name \notin DOMAIN dict
    THEN [res |-> None, exc |-> "none", dict |-> dict]
    ELSE IF dict[name] \in live
    THEN [res |-> dict[name], exc |-> "none", dict |-> dict]
    ELSE [res |-> None, exc |-> "none", dict |-> delitem(dict, name)]

\* value = obj.name
WeakGet(name) ==
    LET got == WeakProperty_get(instance_dict, name, alive)
    IN  /\ instance_dict' = got.dict
        /\ access' = [op |-> "get", name |-> name, value |-> None,
                      res |-> got.res, exc |-> got.exc,
                      purged |-> got.dict # instance_dict]
        /\ UNCHANGED alive
        /\ UNCHANGED <<generator_vars, world_vars>>

\* obj.name = value, value being an entity someone holds: it is alive.
WeakSet(name, value) ==
    /\ value \in alive
    /\ instance_dict' = setitem(instance_dict, name, value)
    /\ access' = [op |-> "set", name |-> name, value |-> value,
                  res |-> None, exc |-> "none", purged |-> FALSE]
    /\ UNCHANGED alive
    /\ UNCHANGED <<generator_vars, world_vars>>

\* del obj.name
WeakDelete(name) ==
    /\ IF name \in DOMAIN instance_dict
       THEN /\ instance_dict' = delitem(instance_dict, name)
            /\ access' = [op |-> "delete", name |-> name, value |-> None,
                          res |-> None, exc |-> "none", purged |-> FALSE]
       ELSE /\ access' = [op |-> "delete", name |-> name, value |-> None,
                          res |-> None, exc |-> "KeyError",
                          purged |-> FALSE]
            /\ UNCHANGED instance_dict
    /\ UNCHANGED alive
    /\ UNCHANGED <<generator_vars, world_vars>>

\* The last strong reference to an entity goes away: the entity is
\* destroyed, and the weak references to it are dead.
Destroy(entity) ==
    /\ entity \in alive
    /\ alive' = alive \ {entity}
    /\ access' = [op |-> "destroy", name |-> None, value |-> entity,
                  res |-> None, exc |-> "none", purged |-> FALSE]
    /\ UNCHANGED instance_dict
    /\ UNCHANGED <<generator_vars, world_vars>>

InitRelation ==
    /\ GeneratorIdle
    /\ RelationInit
    /\ WorldInit

NextRelation ==
    \/ \E name \in Names : WeakGet(name)
    \/ \E name \in Names, value \in Referents : WeakSet(name, value)
    \/ \E name \in Names : WeakDelete(name)
    \/ \E entity \in Referents : Destroy(entity)

SpecRelation == InitRelation /\ [][NextRelation]_vars

\* The entity the attribute `name` refers to, None when there is none: the
\* entry is missing, or the entity has been destroyed.
ReferentIn(dict, live, name) ==
    IF name \in DOMAIN dict /\ dict[name] \in live THEN dict[name] ELSE None

Referent(name) == ReferentIn(instance_dict, alive, name)

\* C15: a read of a WeakProperty attribute raises nothing; it returns the
\* entity referred to while that entity is alive and None when the
\* attribute was never set, was deleted or refers to a destroyed entity;
\* after the read the __dict__ holds no dead reference under the name, the
\* other entries are as they were, and what the attribute refers to after
\* the read is what the read returned.
C15_WeakReadNeverRaises ==
    [][access'.op = "get" =>
        LET name == access'.name
        IN  /\ access'.exc = "none"
            /\ access'.res = Referent(name)
            /\ name \in DOMAIN instance_dict' <=> Referent(name) # None
            /\ \A other \in Names \ {name} :
                /\ other \in DOMAIN instance_dict' <=>
                        other \in DOMAIN instance_dict
                /\ other \in DOMAIN instance_dict =>
                        instance_dict'[other] = instance_dict[other]
            /\ ReferentIn(instance_dict', alive', name) = access'.res]_vars

\* A read has found the reference to a destroyed entity and removed it,
\* the other attribute still referring to a live entity.
C15_Witness ==
    /\ access.op = "get"
    /\ access.res = None
    /\ access.purged
    /\ access.name \notin DOMAIN instance_dict
    /\ \E other \in DOMAIN instance_dict : instance_dict[other] \in alive

(***************************************************************************)
(* Properties of the placements of one generate_map run.                   *)
(***************************************************************************)
\* The points place_player has given to the player, to the companion and
\* to the armor.
AnchorPoints ==
    {point \in DOMAIN creature_grid : creature_grid[point] # NoCreature}
    \cup {point \in DOMAIN item_grid : item_grid[point] # <<>>}

\* generate_map is about to place a portal.
PortalPending ==
    /\ call = "generate_map"
    /\ pc \in {"place_portal_up", "place_portal_down"}

\* The portal generate_map is about to place is put on `point`.
PortalTakes(point) ==
    /\ \/ PlacePortalUp
       \/ PlacePortalDown
    /\ last'.exc = "none"
    /\ last'.res = point

\* C16: when generate_map places a portal after place_player, the terrain
\* of every point given to the player, the companion or the armor is still
\* Floor, unless an earlier portal of the run has taken it, and place_portal
\* may choose each of these Floor points for the portal.
C16_PortalMayTakeAnchorPoint ==
    PortalPending =>
        \A point \in AnchorPoints :
            /\ point \in DOMAIN arch_grid
            /\ arch_grid[point] = Floor \/ arch_grid[point].inst
            /\ arch_grid[point] = Floor => ENABLED PortalTakes(point)

\* A portal stands on the point of the player.
C16_Witness ==
    /\ call = "generate_map"
    /\ last.op = "place_portal"
    /\ last.exc = "none"
    /\ last.res \in DOMAIN creature_grid
    /\ creature_grid[last.res] = Player
    /\ arch_grid[last.res].inst

\* The points whose terrain is an entity: the portals.
Portals == {point \in DOMAIN arch_grid : arch_grid[point].inst}

\* generate_map was called with an up and a down destination.
BothPortals == call = "generate_map" /\ opts.up # None /\ opts.down # None

\* The step is place_portal(portal_type, ...) of generate_map.
DidPortal(portal_type) ==
    /\ Did("place_portal")
    /\ last'.arg.portal_type = portal_type

\* C17: in a generate_map run with both destinations the down portal is
\* placed right after the up portal, on a point that is not the up
\* portal's, which is no longer Floor; when the up portal has taken the
\* only Floor point, the placement of the down portal fails its assertion;
\* and after a run that returned, the terrain layer holds two portals, one
\* StairsUp and one StairsDown.
C17_TwoPortalsOnTwoPoints ==
    /\ [][(BothPortals /\ DidPortal(StairsUp)) =>
            /\ pc = "place_portal_up"
            /\ last'.exc = "none" =>
                /\ pc' = "place_portal_down"
                /\ last'.res \notin FloorCells'
                /\ FloorCells' = FloorCells \ {last'.res}]_vars
    /\ [][(BothPortals /\ DidPortal(StairsDown)) =>
            /\ last.op = "place_portal"
            /\ last.arg.portal_type = StairsUp
            /\ last.exc = "none"
            /\ IF FloorCells = {}
               THEN last'.exc = "AssertionError" /\ outcome' = "raised"
               ELSE /\ last'.exc = "none"
                    /\ last'.res # last.res
                    /\ arch_grid'[last.res].type = "StairsUp"
                    /\ arch_grid'[last'.res].type = "StairsDown"]_vars
    /\ [][(BothPortals /\ Did("to_map")) =>
            /\ Cardinality(Portals) = 2
            /\ \E up, down \in Portals :
                /\ arch_grid[up].type = "StairsUp"
                /\ arch_grid[down].type = "StairsDown"
                /\ arch_grid[up].id # arch_grid[down].id]_vars

\* A run with both destinations has returned with its two portals.
C17_Witness ==
    /\ BothPortals
    /\ last.op = "to_map"
    /\ outcome = "returned"
    /\ Cardinality(Portals) = 2
    /\ \E k \in DOMAIN map : map[k].entity.type = "StairsUp"
    /\ \E k \in DOMAIN map : map[k].entity.type = "StairsDown"

(***************************************************************************)
(* Properties of the leaves.                                               *)
(***************************************************************************)
\* r can be split in no direction.
Unsplittable(r) ==
    /\ r.height < 2 * minimum_size.height
    /\ r.width < 2 * minimum_size.width

\* C18: partition returns a region as it is only when the region is lower
\* than twice the minimum height and narrower than twice the minimum width,
\* and splits it in two otherwise: partition_horizontal and
\* partition_vertical never fall back to [region] for a region partition
\* has found splittable in their direction.  So every leaf of
\* maximally_partition is splittable in neither direction.
C18_LeavesAreUnsplittable ==
    /\ last.op = "partition" =>
        /\ Len(last.res) = 1 <=> Unsplittable(last.arg)
        /\ Len(last.res) = 1 => last.res[1] = last.arg
        /\ Len(last.res) \in {1, 2}
    /\ \A k \in 1 .. Len(final_regions) : Unsplittable(final_regions[k])

\* A region exactly twice the minimum height and at least twice the minimum
\* width has been split down to leaves in both directions.
C18_Witness ==
    /\ Partitioned
    /\ region.height = 2 * minimum_size.height
    /\ region.width >= 2 * minimum_size.width
    /\ Len(final_regions) >= 4
    /\ \A leaf \in Leaves : leaf.height = minimum_size.height

(***************************************************************************)
(* World (flax.world): advance, the event queue and change_map.  What an   *)
(* actor does in act(world) and what an event does in fire(world) is       *)
(* flax.component's and flax.event's: they queue events, and a firing      *)
(* event may also take a creature off the map or change the map.  Map is   *)
(* flax.map's: a map is the list of the creatures standing on its tiles,   *)
(* in the order of tiles.values(), and these are its entity_positions.     *)
(***************************************************************************)
Range(seq) == {seq[k] : k \in DOMAIN seq}

\* The list without the creature: Map.remove.
Without(seq, creature) ==
    LET keep(c) == c # creature IN SelectSeq(seq, keep)

\* The list with the creature before its k-th element: Map.place.
Inserted(seq, k, creature) ==
    SubSeq(seq, 1, k - 1) \o <<creature>> \o SubSeq(seq, k, Len(seq))

\* An event: its identity, how it was queued, and the events that were
\* pending when it was queued.
Event(id, immediate, queue) ==
    [id |-> id, immediate |-> immediate, ahead |-> {queue[k].id : k \in DOMAIN queue}]

Ids(seq) == {seq[k].id : k \in DOMAIN seq}

\* queue_immediate_event adding at the back.
queue_immediate_event_back(queue, event) == Append(queue, event)

\* self.event_queue.append(event)
queue_event(queue, event) == Append(queue, event)

\* self.event_queue.appendleft(event)
queue_immediate_event(queue, event) == <<event>> \o queue

\* The test of advance taking every actor to be on the map.
in_entity_positions_always(actor, map_name) == TRUE

\* actor in self.floor_plan.maps[map_name].entity_positions
in_entity_positions(actor, map_name) == actor \in Range(tiles[map_name])

\* A method is called on the idle world.
WorldCalled(name) ==
    /\ world_pc = "idle"
    /\ world_call' = name

\* queue_event or queue_immediate_event is called: by an actor in act, by
\* an event in fire, or on the idle world.
Queueing(name) ==
    /\ world_pc \in {"idle", "act", "fire"}
    /\ events < MaxEvents
    /\ events' = events + 1
    /\ world_call' = IF world_pc = "idle" THEN name ELSE world_call
    /\ UNCHANGED <<current_map, tiles, actors, actor_index, world_pc, fired,
                   acted, discarded, advances>>

QueueEvent ==
    /\ Queueing("queue_event")
    /\ event_queue' =
        queue_event(event_queue, Event(events + 1, FALSE, event_queue))
    /\ UNCHANGED <<generator_vars, relation_vars>>

QueueImmediateEvent ==
    /\ Queueing("queue_immediate_event")
    /\ event_queue' =
        queue_immediate_event(event_queue,
                              Event(events + 1, TRUE, event_queue))
    /\ UNCHANGED <<generator_vars, relation_vars>>

\* change_map(map_name): called by a firing event or on the idle world,
\* while the player stands on the current map.
ChangeMap(map_name) ==
    /\ world_pc \in {"idle", "fire"}
    /\ in_entity_positions("player", current_map)
    /\ world_call' = IF world_pc = "idle" THEN "change_map" ELSE world_call
    /\ event_queue' = <<>>
    /\ discarded' = discarded \cup Ids(event_queue)
    /\ current_map' = map_name
    /\ LET removed == [tiles EXCEPT ![current_map] = Without(@, "player")]
       IN  \E k \in 1 .. (Len(removed[map_name]) + 1) :
            tiles' = [removed EXCEPT ![map_name] = Inserted(@, k, "player")]
    /\ UNCHANGED <<actors, actor_index, world_pc, fired, acted, events,
                   advances>>
    /\ UNCHANGED <<generator_vars, relation_vars>>

\* advance(), up to its second for loop.
Advance ==
    /\ WorldCalled("advance")
    /\ advances < MaxAdvances
    /\ advances' = advances + 1
    /\ actors' = tiles[current_map]
    /\ actor_index' = 1
    /\ acted' = <<>>
    /\ world_pc' = IF tiles[current_map] = <<>> THEN "idle" ELSE "loop"
    /\ UNCHANGED <<current_map, tiles, event_queue, fired, discarded, events>>
    /\ UNCHANGED <<generator_vars, relation_vars>>

\* The for loop of advance goes on with the next actor, or ends.
NextActor ==
    IF actor_index < Len(actors)
    THEN actor_index' = actor_index + 1 /\ world_pc' = "loop"
    ELSE actor_index' = 1 /\ world_pc' = "idle"

\* One turn of the for loop of advance, up to the call of act.
Turn ==
    /\ world_pc = "loop"
    /\ IF in_entity_positions(actors[actor_index], current_map)
       THEN /\ world_pc' = "act"
            /\ acted' = Append(acted, actors[actor_index])
            /\ UNCHANGED actor_index
       ELSE /\ NextActor
            /\ UNCHANGED acted
    /\ UNCHANGED <<current_map, tiles, event_queue, actors, world_call,
                   fired, discarded, events, advances>>
    /\ UNCHANGED <<generator_vars, relation_vars>>

\* IActor(actor).act(self) returns; advance calls drain_event_queue.
ActReturn ==
    /\ world_pc = "act"
    /\ world_pc' = "drain"
    /\ UNCHANGED <<current_map, tiles, event_queue, actors, actor_index,
                   world_call, fired, acted, discarded, events, advances>>
    /\ UNCHANGED <<generator_vars, relation_vars>>

\* drain_event_queue called on the idle world.
DrainEventQueue ==
    /\ WorldCalled("drain_event_queue")
    /\ world_pc' = "drain"
    /\ UNCHANGED <<current_map, tiles, event_queue, actors, actor_index,
                   fired, acted, discarded, events, advances>>
    /\ UNCHANGED <<generator_vars, relation_vars>>

\* One test of the while loop of drain_event_queue: the event at the front
\* is taken off and fired, or the queue is empty and the method returns.
Drain ==
    /\ world_pc = "drain"
    /\ IF event_queue # <<>>
       THEN /\ event_queue' = Tail(event_queue)
            /\ fired' = Append(fired, Head(event_queue))
            /\ world_pc' = "fire"
            /\ UNCHANGED actor_index
       ELSE /\ IF world_call = "advance"
               THEN NextActor
               ELSE world_pc' = "idle" /\ UNCHANGED actor_index
            /\ UNCHANGED <<event_queue, fired>>
    /\ UNCHANGED <<current_map, tiles, actors, world_call, acted, discarded,
                   events, advances>>
    /\ UNCHANGED <<generator_vars, relation_vars>>

\* The firing event takes a creature off the current map.
FireRemove(creature) ==
    /\ world_pc = "fire"
    /\ in_entity_positions(creature, current_map)
    /\ tiles' = [tiles EXCEPT ![current_map] = Without(@, creature)]
    /\ UNCHANGED <<current_map, event_queue, actors, actor_index, world_pc,
                   world_call, fired, acted, discarded, events, advances>>
    /\ UNCHANGED <<generator_vars, relation_vars>>

\* event.fire(self) returns.
FireReturn ==
    /\ world_pc = "fire"
    /\ world_pc' = "drain"
    /\ UNCHANGED <<current_map, tiles, event_queue, actors, actor_index,
                   world_call, fired, acted, discarded, events, advances>>
    /\ UNCHANGED <<generator_vars, relation_vars>>

Creatures == {"player", "salamango"}

InitWorld ==
    /\ GeneratorIdle
    /\ RelationInit
    /\ \E creatures \in {<<"player", "salamango">>, <<"salamango", "player">>} :
        WorldNew(creatures)

NextWorld ==
    \/ QueueEvent
    \/ QueueImmediateEvent
    \/ \E map_name \in MapNames : ChangeMap(map_name)
    \/ Advance
    \/ Turn
    \/ ActReturn
    \/ DrainEventQueue
    \/ Drain
    \/ \E creature \in Creatures : FireRemove(creature)
    \/ FireReturn

SpecWorld == InitWorld /\ [][NextWorld]_vars

(***************************************************************************)
(* Properties of the world.                                                *)
(***************************************************************************)
NoRepeats(seq) == \A j, k \in DOMAIN seq : j # k => seq[j] # seq[k]

\* The place of an actor in the list `actors`.
ActorIndex(actor) == CHOOSE k \in DOMAIN actors : actors[k] = actor

\* The step is the call of act for the actor the for loop is at.
Acts == Len(acted') = Len(acted) + 1

\* C19: advance takes for actors the creatures standing on the tiles of
\* the current map when it is called; in its for loop an actor that is not
\* in the entity positions of the current map is passed over and an actor
\* that is there acts; no actor acts twice in one call; and when an actor
\* acts after another, or advance returns after an actor has acted, the
\* event queue is empty.
C19_AdvanceTurns ==
    /\ [](/\ NoRepeats(acted)
          /\ \A k \in DOMAIN acted : acted[k] \in Range(actors)
          /\ \A j, k \in DOMAIN acted :
                j < k => ActorIndex(acted[j]) < ActorIndex(acted[k]))
    /\ [][advances' # advances =>
            /\ actors' = tiles[current_map]
            /\ acted' = <<>>]_vars
    /\ [][world_pc = "loop" =>
            LET actor == actors[actor_index]
            IN  IF actor \in Range(tiles[current_map])
                THEN /\ Acts
                     /\ acted' = Append(acted, actor)
                     /\ acted # <<>> => event_queue = <<>>
                ELSE /\ acted' = acted
                     /\ world_pc' # "act"
                     /\ event_queue' = event_queue
                     /\ fired' = fired]_vars
    /\ [][Acts => world_pc = "loop"]_vars
    /\ [][(world_call = "advance" /\ world_pc # "idle" /\ world_pc' = "idle"
           /\ acted # <<>>) => event_queue' = <<>>]_vars

\* advance has returned; the turn of its first actor has taken its second
\* actor off the map, and the second actor has not acted.
C19_Witness ==
    /\ world_call = "advance"
    /\ world_pc = "idle"
    /\ Len(actors) = 2
    /\ acted = <<actors[1]>>
    /\ actors[2] \notin Range(tiles[current_map])
    /\ current_map = "map0"
    /\ fired # <<>>

\* C20: an event is fired when it is taken off the front of the queue;
\* queue_event puts an event at the back of the queue and
\* queue_immediate_event at the front; so the events queued with
\* queue_event fire in the order they were queued, an event queued with
\* queue_immediate_event fires before every event that was pending when it
\* was queued, no event fires twice; drain_event_queue returns with the
\* queue empty; and change_map empties the queue, none of the events it
\* has discarded being fired then or later.
C20_EventQueueOrder ==
    /\ [][events' # events =>
            /\ events' = events + 1
            /\ Len(event_queue') = Len(event_queue) + 1
            /\ \E k \in DOMAIN event_queue' :
                /\ event_queue'[k].id = events'
                /\ k = IF event_queue'[k].immediate
                       THEN 1
                       ELSE Len(event_queue')
                /\ \A j \in DOMAIN event_queue :
                    event_queue[j] = event_queue'[IF j < k THEN j ELSE j + 1]
            /\ fired' = fired]_vars
    /\ [][fired' # fired =>
            /\ event_queue # <<>>
            /\ fired' = Append(fired, Head(event_queue))
            /\ event_queue' = Tail(event_queue)]_vars
    /\ [](/\ NoRepeats(fired)
          /\ Ids(fired) \cap Ids(event_queue) = {}
          /\ \A j, k \in DOMAIN fired :
                (j < k /\ ~fired[j].immediate /\ ~fired[k].immediate) =>
                    fired[j].id < fired[k].id
          /\ \A j, k \in DOMAIN fired :
                (fired[k].immediate /\ fired[j].id \in fired[k].ahead) => k < j
          /\ \A k \in DOMAIN event_queue :
                event_queue[k].immediate =>
                    event_queue[k].ahead \cap Ids(fired) = {}
          /\ discarded \cap Ids(fired) = {}
          /\ discarded \cap Ids(event_queue) = {})
    /\ [][(world_pc = "drain" /\ world_pc' # "fire") =>
            event_queue = <<>> /\ event_queue' = <<>>]_vars
    /\ [][(current_map' # current_map \/ discarded' # discarded) =>
            /\ event_queue' = <<>>
            /\ fired' = fired
            /\ discarded' = discarded \cup Ids(event_queue)]_vars

\* Three events have fired, the second of them queued with
\* queue_immediate_event while the third was pending, and the queue is
\* empty.
C20_Witness ==
    /\ world_pc = "idle"
    /\ event_queue = <<>>
    /\ Len(fired) = 3
    /\ fired[2].immediate
    /\ fired[3].id \in fired[2].ahead
    /\ ~fired[1].immediate
    /\ ~fired[3].immediate

====
